---- MODULE Spec2Model ----
(***************************************************************************)
(* The competitive-analysis dashboard (comprehensive-analysis-v1.py).      *)
(*                                                                         *)
(* The program is a script that the UI framework re-runs from top to       *)
(* bottom once per user interaction.  What survives from one run to the    *)
(* next is the session state: the competitors mapping (an insertion-       *)
(* ordered dict of name -> metrics record) and the optional ai_analysis.   *)
(* One run is one action (Run); the values the widgets return in that run  *)
(* (the text typed, the button clicked, the number edited, the reply of    *)
(* the remote endpoint) are the inputs of the action.                      *)
(*                                                                         *)
(* Real-valued metrics (revenue, market_share, growth_rate) are kept in    *)
(* tenths, so 50.0 is 500 and 12.5 is 125; Python's 0 and 0.0 are the same *)
(* number 0.                                                               *)
(***************************************************************************)
EXTENDS Integers, Sequences, FiniteSets, TLC

VARIABLES
    competitors,   \* st.session_state.competitors: sequence of [name, rec]
    ai_analysis,   \* st.session_state.ai_analysis, or NoKey
    page,          \* what the last run left on the page
    df,            \* the DataFrame the last run built (NoFrame when none)
    event,         \* the widget values of the run that just finished
    posts,         \* requests.post calls issued by the run that just finished
    exc,           \* the exception that ended the run, or "none"
    pc,            \* "idle": waiting for the user; "done": a run just finished
    edits          \* number of number_input edits so far (bounds the model)

vars == <<competitors, ai_analysis, page, df, event, posts, exc, pc, edits>>

----------------------------------------------------------------------------
(* Bounds of the model *)

MaxEdits == 2

Names == {"", "Acme", "Beta"}
ApiKeys == {"", "key"}
Topics == {"", "widgets"}

----------------------------------------------------------------------------
(* The metrics record and the competitors dict *)

FieldNames ==
    <<"revenue", "market_share", "growth_rate",
      "employees", "customer_satisfaction", "product_count">>

FieldSet == {FieldNames[i] : i \in 1..Len(FieldNames)}

\* A record whose defaults are not all zero.
ZeroRecordFullShare == [f \in FieldSet |-> IF f = "market_share" THEN 1000 ELSE 0]

\* The record add_competitor stores under a new name.
ZeroRecord == [f \in FieldSet |-> 0]

Keys(d) == [i \in 1..Len(d) |-> d[i].name]

KeySet(d) == {d[i].name : i \in 1..Len(d)}

Has(d, name) == name \in KeySet(d)

Get(d, name) == d[CHOOSE i \in 1..Len(d) : d[i].name = name].rec

\* d[name] = rec on a Python dict: an existing key keeps its position and
\* gets the new value, a new key goes to the end.
SetItem(d, name, rec) ==
    IF Has(d, name)
    THEN [i \in 1..Len(d) |->
            IF d[i].name = name THEN [name |-> name, rec |-> rec] ELSE d[i]]
    ELSE Append(d, [name |-> name, rec |-> rec])

\* add_competitor without the `name not in` test: an existing record is reset.
add_competitor_overwrite(d, name) ==
    IF name # "" THEN SetItem(d, name, ZeroRecord) ELSE d

add_competitor(d, name) ==
    IF name # "" /\ ~Has(d, name) THEN SetItem(d, name, ZeroRecord) ELSE d

----------------------------------------------------------------------------
(* The number_input widgets of the metrics tabs *)

MinValue(f) ==
    CASE f = "revenue" -> 0
      [] f = "market_share" -> 0
      [] f = "growth_rate" -> -1000
      [] f = "employees" -> 0
      [] f = "customer_satisfaction" -> 0
      [] f = "product_count" -> 0

HasMax(f) == f \in {"market_share", "customer_satisfaction"}

MaxValue(f) ==
    CASE f = "market_share" -> 1000
      [] f = "customer_satisfaction" -> 100

InRange(f, x) == x >= MinValue(f) /\ (HasMax(f) => x <= MaxValue(f))

Clamp(f, x) ==
    IF x < MinValue(f) THEN MinValue(f)
    ELSE IF HasMax(f) /\ x > MaxValue(f) THEN MaxValue(f)
    ELSE x

\* What the user may try to type into the widget of field f.
Attempts(f) ==
    CASE f = "revenue" -> {-10, 500}
      [] f = "market_share" -> {125, 1500}
      [] f = "growth_rate" -> {-1500, -55}
      [] f = "employees" -> {-1, 20}
      [] f = "customer_satisfaction" -> {80, 150}
      [] f = "product_count" -> {-1, 3}

\* A widget without min_value/max_value: whatever is typed gets through.
number_input_unbounded(f, value, name, e) ==
    IF e.kind = "edit" /\ e.name = name /\ e.field = f THEN e.attempt ELSE value

\* A widget whose value argument is not the stored field: untouched widgets
\* fall back to min_value.
number_input_reset(f, value, name, e) ==
    IF e.kind = "edit" /\ e.name = name /\ e.field = f
    THEN (IF InRange(f, e.attempt) THEN e.attempt
          ELSE IF e.clamps THEN Clamp(f, e.attempt) ELSE value)
    ELSE MinValue(f)

\* st.number_input(min_value=, max_value=, value=, key=f"..._{name}"): the
\* widget returns what the user committed in this run, and otherwise its
\* value argument.  An attempt outside [min_value, max_value] never gets
\* through: the widget either refuses it (the value stays) or clamps it to
\* the bound, depending on the framework's version (e.clamps).
number_input(f, value, name, e) ==
    IF e.kind = "edit" /\ e.name = name /\ e.field = f
    THEN (IF InRange(f, e.attempt) THEN e.attempt
          ELSE IF e.clamps THEN Clamp(f, e.attempt) ELSE value)
    ELSE value

\* One pass of the tab loop body: the six widgets, then record.update({...}).
UpdatedRecord(rec, name, e) ==
    [f \in FieldSet |-> number_input(f, rec[f], name, e)]

UpdateAll(d, e) ==
    [i \in 1..Len(d) |->
        [name |-> d[i].name, rec |-> UpdatedRecord(d[i].rec, d[i].name, e)]]

----------------------------------------------------------------------------
(* The snapshot: df = pd.DataFrame(st.session_state.competitors).T *)

NoFrame == [index |-> <<>>, columns |-> <<>>, at |-> <<>>]

SeqSet(s) == {s[i] : i \in 1..Len(s)}

\* A dict of dicts: one column per outer key, one row per inner key.
DataFrame(d) ==
    [index |-> FieldNames,
     columns |-> Keys(d),
     at |-> [rc \in FieldSet \X KeySet(d) |-> Get(d, rc[2])[rc[1]]]]

Transpose(frame) ==
    [index |-> frame.columns,
     columns |-> frame.index,
     at |-> [rc \in SeqSet(frame.columns) \X SeqSet(frame.index) |->
                frame.at[<<rc[2], rc[1]>>]]]

----------------------------------------------------------------------------
(* The remote endpoint's replies *)

\* JSON values as response.json() returns them.
JNull == [t |-> "null"]
JNum == [t |-> "num"]
JStr(chars) == [t |-> "str", chars |-> chars]
JList(items) == [t |-> "list", items |-> items]
JObj(key, val) == [t |-> "dict", key |-> key, val |-> val]

\* Values that are none of the shapes the script expects at any level.
Deviants ==
    {JNull, JNum, JStr(<<"x">>), JStr(<<>>), JList(<<>>), JList(<<JNull>>),
     JObj("other", JNull)}

TextValues == {JStr(<<"a", "b">>), JNull}
PartValues == {JObj("text", v) : v \in TextValues} \cup Deviants
PartsValues == {JList(<<v>>) : v \in PartValues} \cup Deviants
ContentValues == {JObj("parts", v) : v \in PartsValues} \cup Deviants
CandidateValues == {JObj("content", v) : v \in ContentValues} \cup Deviants
CandidatesValues == {JList(<<v>>) : v \in CandidateValues} \cup Deviants
Bodies == {JObj("candidates", v) : v \in CandidatesValues} \cup Deviants

NotJSON == [t |-> "notjson"]

\* A reply of the endpoint to one POST: the transport fails (requests.post
\* raises), the endpoint answers with an error status (raise_for_status
\* raises), or it answers 2xx with some body.
Reply(kind, desc, body) == [kind |-> kind, desc |-> desc, body |-> body]

NoReply == Reply("none", "", JNull)

Failures ==
    {Reply("ConnectionError", "connection refused", JNull),
     Reply("Timeout", "read timed out", JNull),
     Reply("HTTPError", "500 Server Error", JNull)}

Replies ==
    Failures \cup {Reply("ok", "", b) : b \in Bodies \cup {NotJSON}}

IsFailure(r) == r.kind \in {"ConnectionError", "Timeout", "HTTPError"}

\* The body has exactly the shape candidates[0].content.parts[0].text with a
\* string at the end.
WellFormed(b) ==
    \E chars \in {<<"a", "b">>} :
        b = JObj("candidates",
                 JList(<<JObj("content",
                              JObj("parts",
                                   JList(<<JObj("text", JStr(chars))>>)))>>))

----------------------------------------------------------------------------
(* Python's subscription v[k] on a decoded JSON value *)

Ok(v) == [ok |-> TRUE, val |-> v, exc |-> "none"]
Raise(x) == [ok |-> FALSE, val |-> JNull, exc |-> x]

StrKey(k) == [int |-> FALSE, name |-> k, i |-> 0]
IntKey(i) == [int |-> TRUE, name |-> "", i |-> i]

GetItem(v, k) ==
    CASE v.t = "dict" ->
            IF ~k.int /\ k.name = v.key THEN Ok(v.val) ELSE Raise("KeyError")
      [] v.t = "list" ->
            IF ~k.int THEN Raise("TypeError")
            ELSE IF k.i + 1 \in 1..Len(v.items) THEN Ok(v.items[k.i + 1])
            ELSE Raise("IndexError")
      [] v.t = "str" ->
            IF ~k.int THEN Raise("TypeError")
            ELSE IF k.i + 1 \in 1..Len(v.chars)
                 THEN Ok(JStr(<<v.chars[k.i + 1]>>))
            ELSE Raise("IndexError")
      [] OTHER -> Raise("TypeError")

\* result[p1][p2]...: the first subscription that raises ends the evaluation.
RECURSIVE Subscript(_, _)
Subscript(v, path) ==
    IF path = <<>> THEN Ok(v)
    ELSE LET r == GetItem(v, Head(path))
         IN IF r.ok THEN Subscript(r.val, Tail(path)) ELSE r

TextPath ==
    <<StrKey("candidates"), IntKey(0), StrKey("content"),
      StrKey("parts"), IntKey(0), StrKey("text")>>

----------------------------------------------------------------------------
(* get_ai_analysis *)

PyStr(prefix, detail) == [t |-> "pystr", prefix |-> prefix, detail |-> detail]

ProvideBoth == PyStr("Please provide both API key and research topic", "")
ErrorFetching(detail) == PyStr("Error fetching AI analysis: ", detail)
ErrorParsing == PyStr("Error parsing AI response", "")

Returned(v, n) == [raised |-> FALSE, ret |-> v, exc |-> "none", posts |-> n]
Raised(x, n) == [raised |-> TRUE, ret |-> JNull, exc |-> x, posts |-> n]

\* The classes the two except clauses catch.
IsRequestException(x) ==
    x \in {"ConnectionError", "Timeout", "HTTPError", "requests.JSONDecodeError"}

IsKeyOrIndexError(x) == x \in {"KeyError", "IndexError"}

\* The try block: post, raise_for_status, json(), the subscriptions.
\* response.json() on a body that is no JSON raises requests' JSONDecodeError
\* (a RequestException) or, with an older requests, a plain ValueError
\* (r.compat); which one is a property of the installed library.
TryBlock(r, compat) ==
    IF IsFailure(r) THEN Raise(r.kind)
    ELSE IF r.body = NotJSON
         THEN Raise(IF compat THEN "ValueError" ELSE "requests.JSONDecodeError")
    ELSE Subscript(r.body, TextPath)

\* get_ai_analysis without the early return on a missing input.
get_ai_analysis_unguarded(api_key, topic, r, compat) ==
    LET t == TryBlock(r, compat)
    IN IF t.ok THEN Returned(t.val, 1)
       ELSE IF IsRequestException(t.exc)
            THEN Returned(ErrorFetching(IF IsFailure(r) THEN r.desc ELSE t.exc), 1)
       ELSE IF IsKeyOrIndexError(t.exc) THEN Returned(ErrorParsing, 1)
       ELSE Raised(t.exc, 1)

\* get_ai_analysis reporting a failed request with the parse-error message.
get_ai_analysis_swallow(api_key, topic, r, compat) ==
    IF api_key = "" \/ topic = "" THEN Returned(ProvideBoth, 0)
    ELSE LET t == TryBlock(r, compat)
         IN IF t.ok THEN Returned(t.val, 1)
            ELSE IF IsKeyOrIndexError(t.exc) THEN Returned(ErrorParsing, 1)
            ELSE IF IsRequestException(t.exc)
                 THEN Returned(ErrorParsing, 1)
            ELSE Raised(t.exc, 1)

get_ai_analysis(api_key, topic, r, compat) ==
    IF api_key = "" \/ topic = "" THEN Returned(ProvideBoth, 0)
    ELSE LET t == TryBlock(r, compat)
         IN IF t.ok THEN Returned(t.val, 1)
            ELSE IF IsRequestException(t.exc)
                 THEN Returned(ErrorFetching(IF IsFailure(r) THEN r.desc ELSE t.exc), 1)
            ELSE IF IsKeyOrIndexError(t.exc) THEN Returned(ErrorParsing, 1)
            ELSE Raised(t.exc, 1)

NoKey == [t |-> "absent"]

----------------------------------------------------------------------------
(* One run of the script *)

\* The widget values of one run.  Only one widget changes per run: a button
\* returns True only in the run its click started, and a number widget
\* returns a new value only in the run the user's commit started.
Event(kind, name, field, attempt, clamps, api_key, topic, reply, compat) ==
    [kind |-> kind, name |-> name, field |-> field, attempt |-> attempt,
     clamps |-> clamps, api_key |-> api_key, topic |-> topic,
     reply |-> reply, compat |-> compat]

NoEvent == Event("none", "", "", 0, FALSE, "", "", NoReply, FALSE)

\* The page is first loaded.
LoadEvent == Event("load", "", "", 0, FALSE, "", "", NoReply, FALSE)

\* A rerun that changes nothing the script reads: the chart-style selectbox,
\* the gridlines checkbox, the download button.
OtherEvent == Event("other", "", "", 0, FALSE, "", "", NoReply, FALSE)

\* "Add Competitor" is clicked with `name` in the text box.
AddEvents == {Event("click_add", n, "", 0, FALSE, "", "", NoReply, FALSE) : n \in Names}

\* "Get AI Analysis" is clicked; the endpoint is asked only when both texts
\* are there, so only then is there a reply.  The library's version matters
\* only for a body that is no JSON.
AIEvents(replies) ==
    {Event("click_ai", "", "", 0, FALSE, k, t, NoReply, FALSE) :
        k \in ApiKeys, t \in Topics}
    \cup
    {Event("click_ai", "", "", 0, FALSE, "key", "widgets", r, FALSE) : r \in replies}
    \cup
    {Event("click_ai", "", "", 0, FALSE, "key", "widgets", Reply("ok", "", NotJSON), TRUE)}

\* The user commits a number in one of the widgets on the page.  Whether the
\* widget refuses or clamps matters only for an attempt out of range.
ClampChoices(f, a) == IF InRange(f, a) THEN {FALSE} ELSE BOOLEAN

EditEvents(d) ==
    UNION {UNION {{Event("edit", n, f, a, c, "", "", NoReply, FALSE) :
                        n \in KeySet(d), c \in ClampChoices(f, a)} :
                  a \in Attempts(f)} :
           f \in FieldSet}

\* The locals and session state a run carries from statement to statement.
RunState(d, ai, pg, frame, n, x) ==
    [competitors |-> d, ai_analysis |-> ai, page |-> pg, df |-> frame,
     posts |-> n, exc |-> x]

\* Lines 64-67: the Add Competitor button.
AddButton(s, e) ==
    IF e.kind = "click_add"
    THEN [s EXCEPT !.competitors = add_competitor(@, e.name)]
    ELSE s

\* Lines 73-77: the Get AI Analysis button.  An exception get_ai_analysis
\* lets through ends the run there.
AIButton(s, e) ==
    IF e.kind = "click_ai"
    THEN LET r == get_ai_analysis(e.api_key, e.topic, e.reply, e.compat)
         IN IF r.raised
            THEN [s EXCEPT !.exc = r.exc, !.posts = r.posts, !.page = "exception"]
            ELSE [s EXCEPT !.ai_analysis = r.ret, !.posts = r.posts]
    ELSE s

\* Lines 86-143: the tabs, their widgets and the update of each record.
Metrics(s, e) ==
    IF s.competitors # <<>>
    THEN [s EXCEPT !.competitors = UpdateAll(@, e)]
    ELSE s

\* Lines 145-193: the snapshot and everything drawn from it, or the prompt.
Visualize(s, e) ==
    IF s.competitors # <<>>
    THEN [s EXCEPT !.df = Transpose(DataFrame(s.competitors)), !.page = "charts"]
    ELSE [s EXCEPT !.page = "prompt"]

Statement(stage, s, e) ==
    CASE stage = "add_button" -> AddButton(s, e)
      [] stage = "ai_button" -> AIButton(s, e)
      [] stage = "metrics" -> Metrics(s, e)
      [] stage = "visualize" -> Visualize(s, e)

\* The script with the snapshot and charts placed before the tab loop.
ScriptOrderSnapshotFirst == <<"add_button", "ai_button", "visualize", "metrics">>

\* The order of the script's statements, top to bottom.
ScriptOrder == <<"add_button", "ai_button", "metrics", "visualize">>

\* The statements in order; an exception skips the rest of the script.
RECURSIVE Execute(_, _, _)
Execute(order, s, e) ==
    IF order = <<>> \/ s.exc # "none" THEN s
    ELSE Execute(Tail(order), Statement(Head(order), s, e), e)

\* The replies the whole-script specification draws from: a well-formed
\* body, an error status, a body without the text key and a body whose
\* candidates is null.
ScriptReplies ==
    {Reply("ok", "", JObj("candidates", JList(<<JObj("content",
        JObj("parts", JList(<<JObj("text", JStr(<<"a", "b">>))>>)))>>))),
     Reply("HTTPError", "500 Server Error", JNull),
     Reply("ok", "", JObj("candidates", JList(<<JObj("content",
        JObj("parts", JList(<<JObj("other", JNull)>>)))>>))),
     Reply("ok", "", JObj("candidates", JNull))}

\* What the user can do next.  The sidebar's text boxes and buttons are
\* always on the page; the number widgets only after a run that drew the
\* tabs; the settings at the end of the script only after a run that got
\* there.
Menu(aiEvents, editable) ==
    IF page = "none" THEN {LoadEvent}
    ELSE AddEvents \cup aiEvents
         \cup (IF page = "exception" THEN {} ELSE {OtherEvent})
         \cup (IF editable /\ page = "charts" /\ edits < MaxEdits
               THEN EditEvents(competitors) ELSE {})

Init ==
    /\ competitors = <<>>
    /\ ai_analysis = NoKey
    /\ page = "none"
    /\ df = NoFrame
    /\ event = NoEvent
    /\ posts = 0
    /\ exc = "none"
    /\ pc = "idle"
    /\ edits = 0

\* A user interaction out of `menu` and the script run it starts.
RunWith(menu) ==
    /\ pc = "idle"
    /\ \E e \in menu :
        \E s \in {Execute(ScriptOrder,
                          RunState(competitors, ai_analysis, "running", NoFrame, 0, "none"),
                          e)} :
           /\ competitors' = s.competitors
           /\ ai_analysis' = s.ai_analysis
           /\ page' = s.page
           /\ df' = s.df
           /\ posts' = s.posts
           /\ exc' = s.exc
           /\ event' = e
           /\ edits' = IF e.kind = "edit" THEN edits + 1 ELSE edits
    /\ pc' = "done"

\* The dashboard: every interaction, the endpoint's replies from ScriptReplies.
ScriptAIEvents == AIEvents(ScriptReplies)

Run == RunWith(Menu(ScriptAIEvents, TRUE))

\* The analysis client: every reply of Replies, no metric edits.
ClientAIEvents == AIEvents(Replies)

RunClient == RunWith(Menu(ClientAIEvents, FALSE))

\* The run is over: its locals are gone, the page waits for the user.
EndRun ==
    /\ pc = "done"
    /\ pc' = "idle"
    /\ event' = NoEvent
    /\ posts' = 0
    /\ exc' = "none"
    /\ UNCHANGED <<competitors, ai_analysis, page, df, edits>>

Next == Run \/ EndRun

Spec == Init /\ [][Next]_vars

NextClient == RunClient \/ EndRun

SpecClient == Init /\ [][NextClient]_vars

----------------------------------------------------------------------------
(* Properties *)

Count(d, name) == Cardinality({i \in 1..Len(d) : d[i].name = name})

\* The bound section 3 of the specification declares for each field (real
\* fields in tenths).
DeclaredBound(f, x) ==
    CASE f = "revenue" -> x >= 0
      [] f = "market_share" -> x >= 0 /\ x <= 1000
      [] f = "growth_rate" -> x >= -1000
      [] f = "employees" -> x >= 0
      [] f = "customer_satisfaction" -> x >= 0 /\ x <= 100
      [] f = "product_count" -> x >= 0

\* C1: every field of every stored record is within its declared bound,
\* whatever values the user tried to enter: revenue >= 0,
\* 0 <= market_share <= 100, growth_rate >= -100, employees >= 0,
\* 0 <= customer_satisfaction <= 100, product_count >= 0.
C1_FieldsWithinBounds ==
    \A i \in 1..Len(competitors) : \A f \in FieldSet :
        DeclaredBound(f, competitors[i].rec[f])

\* A run in which the user tried customer_satisfaction = 150 has finished.
C1_Witness ==
    /\ pc = "done"
    /\ event.kind = "edit"
    /\ event.field = "customer_satisfaction"
    /\ event.attempt = 150
    /\ ~DeclaredBound(event.field, event.attempt)
    /\ DeclaredBound(event.field, Get(competitors, event.name)[event.field])

\* C2: Add Competitor with an empty name or a name that is already a key
\* raises nothing and leaves the whole store as it was (keys, order, every
\* record), with exactly one entry under an existing name.
C2_AddIsNoOp ==
    [][(/\ pc = "idle"
        /\ event'.kind = "click_add"
        /\ (event'.name = "" \/ Has(competitors, event'.name)))
       => (/\ competitors' = competitors
           /\ exc' = "none"
           /\ Count(competitors', event'.name) = (IF event'.name = "" THEN 0 ELSE 1))]_vars

\* Acme, added and edited before, has just been added again.
C2_Witness ==
    /\ pc = "done"
    /\ event.kind = "click_add"
    /\ event.name = "Acme"
    /\ Count(competitors, "Acme") = 1
    /\ Get(competitors, "Acme")["revenue"] = 500

\* C3: Add Competitor with a non-empty name that is no key yet appends one
\* entry for it with all six fields zero, keeps every earlier entry as it
\* was, and the snapshot of that run shows exactly that.
C3_AddInsertsZeroRecord ==
    [][(/\ pc = "idle"
        /\ event'.kind = "click_add"
        /\ event'.name # ""
        /\ ~Has(competitors, event'.name))
       => (/\ Len(competitors') = Len(competitors) + 1
           /\ \A i \in 1..Len(competitors) : competitors'[i] = competitors[i]
           /\ competitors'[Len(competitors')].name = event'.name
           /\ \A f \in FieldSet : competitors'[Len(competitors')].rec[f] = 0
           /\ Count(competitors', event'.name) = 1
           /\ page' = "charts"
           /\ df'.index = Keys(competitors')
           /\ Cardinality({i \in 1..Len(df'.index) : df'.index[i] = event'.name}) = 1
           /\ \A f \in FieldSet : df'.at[<<event'.name, f>>] = 0
           /\ \A i \in 1..Len(competitors) : \A f \in FieldSet :
                 df'.at[<<competitors[i].name, f>>] = competitors[i].rec[f])]_vars

\* Beta has just been added after Acme, whose revenue had been edited.
C3_Witness ==
    /\ pc = "done"
    /\ event.kind = "click_add"
    /\ event.name = "Beta"
    /\ Keys(competitors) = <<"Acme", "Beta">>
    /\ Get(competitors, "Acme")["revenue"] = 500
    /\ \A f \in FieldSet : Get(competitors, "Beta")[f] = 0
    /\ page = "charts"

\* C5: get_ai_analysis issues no request and returns the 'provide both'
\* message when the API key or the topic is empty, and issues exactly one
\* request otherwise, whatever the endpoint replies.
C5_OneRequestOrNone ==
    (pc = "done" /\ event.kind = "click_ai")
    => IF event.api_key = "" \/ event.topic = ""
       THEN posts = 0 /\ exc = "none" /\ ai_analysis = ProvideBoth
       ELSE posts = 1

\* Get AI Analysis was clicked with a topic and no key.
C5_Witness ==
    /\ pc = "done"
    /\ event.kind = "click_ai"
    /\ event.api_key = ""
    /\ event.topic = "widgets"
    /\ posts = 0
    /\ ai_analysis = ProvideBoth

\* C6: with both inputs given, a transport failure or an error status makes
\* get_ai_analysis return the 'Error fetching AI analysis' message with the
\* failure's description in it; no exception reaches the caller.
C6_FailureIsReported ==
    (/\ pc = "done"
     /\ event.kind = "click_ai"
     /\ event.api_key # "" /\ event.topic # ""
     /\ event.reply.kind \in {"ConnectionError", "Timeout", "HTTPError"})
    => (/\ exc = "none"
        /\ ai_analysis.t = "pystr"
        /\ ai_analysis.prefix = "Error fetching AI analysis: "
        /\ ai_analysis.detail = event.reply.desc)

\* The endpoint answered 500.
C6_Witness ==
    /\ pc = "done"
    /\ event.kind = "click_ai"
    /\ event.reply.kind = "HTTPError"
    /\ event.reply.desc = "500 Server Error"
    /\ ai_analysis = PyStr("Error fetching AI analysis: ", "500 Server Error")

\* C7: a 2xx reply whose body deviates in any way from
\* candidates[0].content.parts[0].text makes get_ai_analysis return
\* 'Error parsing AI response' and raise nothing.
C7_DeviationIsMalformed ==
    (/\ pc = "done"
     /\ event.kind = "click_ai"
     /\ event.api_key # "" /\ event.topic # ""
     /\ event.reply.kind = "ok"
     /\ ~WellFormed(event.reply.body))
    => (exc = "none" /\ ai_analysis = PyStr("Error parsing AI response", ""))

\* C8: an edit changes the edited field of the edited competitor only; an
\* in-range value is stored as given, every other field of that record and
\* every other record stay as they were.
C8_EditChangesOnlyItsField ==
    [][(pc = "idle" /\ event'.kind = "edit")
       => (/\ Keys(competitors') = Keys(competitors)
           /\ \A i \in 1..Len(competitors) : \A f \in FieldSet :
                IF competitors[i].name = event'.name /\ f = event'.field
                THEN (DeclaredBound(f, event'.attempt)
                        => competitors'[i].rec[f] = event'.attempt)
                ELSE competitors'[i].rec[f] = competitors[i].rec[f])]_vars

\* Acme's revenue was set to 50.0 and now its market share to 12.5, next to
\* another competitor.
C8_Witness ==
    /\ pc = "done"
    /\ event.kind = "edit"
    /\ event.name = "Acme"
    /\ event.field = "market_share"
    /\ Len(competitors) = 2
    /\ Get(competitors, "Acme") =
         [f \in FieldSet |->
            IF f = "revenue" THEN 500 ELSE IF f = "market_share" THEN 125 ELSE 0]

\* C9: the snapshot behind the charts, the table and the export is the
\* store as the run left it: one row per competitor in key order, each cell
\* the stored field, the updates of that run included.
C9_SnapshotIsCurrent ==
    page = "charts"
    => (/\ df.index = Keys(competitors)
        /\ df.columns = FieldNames
        /\ \A i \in 1..Len(competitors) : \A f \in FieldSet :
              df.at[<<competitors[i].name, f>>] = competitors[i].rec[f])

\* A run that stored a new revenue has drawn it.
C9_Witness ==
    /\ pc = "done"
    /\ page = "charts"
    /\ event.kind = "edit"
    /\ event.field = "revenue"
    /\ event.attempt = 500
    /\ df.at[<<event.name, "revenue">>] = 500

\* C10: a run with an empty store draws no chart, table or export, and a
\* run with a non-empty store draws them.
C10_ChartsIffNonEmpty ==
    pc = "done"
    => (/\ competitors = <<>> => (page # "charts" /\ df = NoFrame)
        /\ competitors # <<>> => (page = "charts" /\ df # NoFrame))

====
